---------------------------- MODULE Spec2Model ----------------------------
(***************************************************************************)
(* Neemo (src/src/main.rs): a document store over two sled trees, `db`     *)
(* (key -> serialized document) and `index` ("field:value" -> key), each   *)
(* behind its own Mutex.  Byte strings are sequences of character codes,   *)
(* so that prefix scans and sled's lexicographic key order are computed.   *)
(***************************************************************************)
EXTENDS Integers, Sequences, FiniteSets, TLC

(***************************************************************************)
(* Byte strings                                                            *)
(***************************************************************************)

\* ":" of format!("{}:{}", field, value)
Colon == <<58>>

\* '"' delimiting a JSON string
Quote == <<34>>

\* {"data":{   -- the opening of a serialized Document (struct field `data`)
DataOpen == <<123, 34, 100, 97, 116, 97, 34, 58, 123>>

\* }}
DataClose == <<125, 125>>

Comma == <<44>>

IsDigit(c) == c >= 48 /\ c <= 57

\* a is a prefix of b (sled scan_prefix matches keys starting with the prefix)
IsPrefix(a, b) ==
    /\ Len(a) <= Len(b)
    /\ \A i \in 1..Len(a) : a[i] = b[i]

\* byte-wise lexicographic order of sled keys
LexLess(a, b) ==
    \/ Len(a) < Len(b) /\ \A j \in 1..Len(a) : a[j] = b[j]
    \/ \E i \in 1..Len(a) :
          /\ i <= Len(b)
          /\ a[i] < b[i]
          /\ \A j \in 1..(i - 1) : a[j] = b[j]

LexLeq(a, b) == a = b \/ LexLess(a, b)

\* the elements of a set of byte strings in ascending key order
RECURSIVE SortKeys(_)
SortKeys(S) ==
    IF S = {} THEN <<>>
    ELSE LET m == CHOOSE x \in S : \A y \in S \ {x} : LexLess(x, y)
         IN  <<m>> \o SortKeys(S \ {m})

(***************************************************************************)
(* serde_json values and documents                                         *)
(***************************************************************************)

\* Value::Number (non-negative integers) and Value::String
Num(n) == [t |-> "num", n |-> n, s |-> <<>>]
Str(s) == [t |-> "str", n |-> 0, s |-> s]

\* Document { data: HashMap::new() }
EmptyDoc == [f \in {} |-> Num(0)]

\* decimal digits of n, as serde_json prints an integer
RECURSIVE Digits(_)
Digits(n) ==
    IF n < 10 THEN <<48 + n>>
    ELSE Digits(n \div 10) \o <<48 + (n % 10)>>

\* serde_json::to_string(value)
value_to_string(v) ==
    IF v.t = "num" THEN Digits(v.n) ELSE Quote \o v.s \o Quote

\* "field":value pairs of doc in the iteration order ord, comma separated
RECURSIVE Members(_, _)
Members(doc, ord) ==
    IF ord = <<>> THEN <<>>
    ELSE Quote \o Head(ord) \o Quote \o Colon \o value_to_string(doc[Head(ord)])
         \o (IF Len(ord) > 1 THEN Comma ELSE <<>>)
         \o Members(doc, Tail(ord))

\* serde_json::to_string(&doc): ord is the HashMap's iteration order
to_string(doc, ord) == DataOpen \o Members(doc, ord) \o DataClose

\* the iteration orders a HashMap with the fields of doc can have
Orders(doc) ==
    LET D == DOMAIN doc
    IN  {o \in [1..Cardinality(D) -> D] : \A f \in D : \E i \in DOMAIN o : o[i] = f}

\* format!("{}:{}", field, serde_json::to_string(value))
index_key(field, value) == field \o Colon \o value_to_string(value)

(***************************************************************************)
(* serde_json::from_slice::<Document>                                      *)
(***************************************************************************)

ParseFail == [ok |-> FALSE, doc |-> EmptyDoc, next |-> 0]

\* position of the next '"' at or after p, 0 if none
RECURSIVE FindQuote(_, _)
FindQuote(b, p) ==
    IF p > Len(b) THEN 0
    ELSE IF b[p] = 34 THEN p ELSE FindQuote(b, p + 1)

\* first position at or after p that holds no digit
RECURSIVE EndOfDigits(_, _)
EndOfDigits(b, p) ==
    IF p > Len(b) \/ ~IsDigit(b[p]) THEN p ELSE EndOfDigits(b, p + 1)

RECURSIVE DigitsVal(_)
DigitsVal(s) ==
    IF s = <<>> THEN 0
    ELSE 10 * DigitsVal(SubSeq(s, 1, Len(s) - 1)) + (s[Len(s)] - 48)

\* a JSON number or string starting at p
ParseValue(b, p) ==
    IF p > Len(b) THEN [ok |-> FALSE, v |-> Num(0), next |-> 0]
    ELSE IF b[p] = 34
    THEN LET q == FindQuote(b, p + 1)
         IN  IF q = 0 THEN [ok |-> FALSE, v |-> Num(0), next |-> 0]
             ELSE [ok |-> TRUE, v |-> Str(SubSeq(b, p + 1, q - 1)), next |-> q + 1]
    ELSE IF IsDigit(b[p])
    THEN LET q == EndOfDigits(b, p)
         IN  [ok |-> TRUE, v |-> Num(DigitsVal(SubSeq(b, p, q - 1))), next |-> q]
    ELSE [ok |-> FALSE, v |-> Num(0), next |-> 0]

\* the members "field":value,... of the data object from p up to its "}"
RECURSIVE ParseMembers(_, _, _)
ParseMembers(b, p, acc) ==
    IF p > Len(b) \/ b[p] # 34 THEN ParseFail
    ELSE LET q == FindQuote(b, p + 1)
         IN  IF q = 0 \/ q + 1 > Len(b) \/ b[q + 1] # 58 THEN ParseFail
             ELSE LET val  == ParseValue(b, q + 2)
                      acc2 == (SubSeq(b, p + 1, q - 1) :> val.v) @@ acc
                  IN  IF ~val.ok \/ val.next > Len(b) THEN ParseFail
                      ELSE IF b[val.next] = 44
                      THEN ParseMembers(b, val.next + 1, acc2)
                      ELSE IF b[val.next] = 125
                      THEN [ok |-> TRUE, doc |-> acc2, next |-> val.next + 1]
                      ELSE ParseFail

\* serde_json::from_slice(bytes): Ok(doc) or Err
from_slice(b) ==
    IF ~IsPrefix(DataOpen, b) \/ Len(b) < Len(DataOpen) + 2 THEN ParseFail
    ELSE LET p == Len(DataOpen) + 1
             m == IF b[p] = 125
                  THEN [ok |-> TRUE, doc |-> EmptyDoc, next |-> p + 1]
                  ELSE ParseMembers(b, p, EmptyDoc)
         IN  IF m.ok /\ m.next = Len(b) /\ b[m.next] = 125 THEN m ELSE ParseFail


(***************************************************************************)
(* Inputs                                                                  *)
(***************************************************************************)

\* field names "age", "n", "name"
Age == <<97, 103, 101>>
N == <<110>>
Name == <<110, 97, 109, 101>>

\* document keys "u1", "u2"
U1 == <<117, 49>>
U2 == <<117, 50>>

\* keys and string values of the BATCH command's closure: "doc1", "doc2",
\* "Alice", "Bob"
KeyDoc1 == <<100, 111, 99, 49>>
KeyDoc2 == <<100, 111, 99, 50>>
Alice == <<65, 108, 105, 99, 101>>
Bob == <<66, 111, 98>>

\* a document with one field
Doc1(f, v) == (f :> v)

\* a document with two fields
Doc2(f, v, g, w) == (f :> v) @@ (g :> w)

Keys == {U1, U2}

\* documents the threads of Spec insert
Docs == {Doc1(Age, Num(30)), Doc2(Age, Num(30), Name, Str(Bob))}

\* (field, value) pairs the threads of Spec query
Queries == {<<Age, Num(30)>>}

\* (field, start, end) triples the threads of Spec range-query
Ranges == {<<Age, Num(0), Num(50)>>}

\* number of API calls a behaviour starts
MaxCalls == 4

Threads == {"t1", "t2"}
NoThread == "none"

(***************************************************************************)
(* State                                                                   *)
(***************************************************************************)

VARIABLES
    db,         \* sled tree "data": key -> serialized document
    index,      \* sled tree "index": index key -> document key
    dbLock,     \* holder of the Mutex around db, or NoThread
    indexLock,  \* holder of the Mutex around index, or NoThread
    pc,         \* per thread: where it stands in its call
    op,         \* per thread: the method it called last
    key,        \* per thread: the key argument
    doc,        \* per thread: the document argument (insert) or the removed document (delete)
    todo,       \* per thread: fields the loop over doc.data has still to visit
    arg,        \* per thread: field, value / start, end of a query
    items,      \* per thread: document keys the index iterator has still to yield
    results,    \* per thread: the returned Vec<Document> / Option<Document>
    ok,         \* per thread: the returned Result is Ok
    lines,      \* per thread: lines of the file import has still to read
    file,       \* the export file: whether it exists, and its lines
    calls,      \* number of calls started
    lastOk,     \* history: key -> document of an insert that returned Ok, unmutated since
    clean,      \* history: per thread, no other mutation of its key since its own db write
    src,        \* history: key -> document of the store the file was exported from
    fresh,      \* history: the last import started on an empty store
    agg,        \* per thread: the Option<Value> aggregate returned
    shown,      \* what the command loop read for its last GET
    want        \* history: key -> content the accepted commands, in order, leave

vars == <<db, index, dbLock, indexLock, pc, op, key, doc, todo, arg, items,
          results, ok, lines, file, calls, lastOk, clean, src, fresh,
          agg, shown, want>>

\* the variables of the export / import file and its history
xfer == <<lines, file, src, fresh>>

\* the variables of aggregate and of the command loop
more == <<agg, shown, want>>

\* Option<Value>: None, or Some of the number num / den
None == [some |-> FALSE, num |-> 0, den |-> 1]

\* what the command loop has read before its first GET
NoGet == [key |-> <<>>, got |-> <<>>, want |-> <<>>]

NoArg == [field |-> <<>>, lo |-> Num(0), hi |-> Num(0)]

\* Neemo::new on a fresh path: both trees empty, both mutexes free
Init ==
    /\ db = <<>>
    /\ index = <<>>
    /\ dbLock = NoThread
    /\ indexLock = NoThread
    /\ pc = [t \in Threads |-> "idle"]
    /\ op = [t \in Threads |-> "none"]
    /\ key = [t \in Threads |-> <<>>]
    /\ doc = [t \in Threads |-> EmptyDoc]
    /\ todo = [t \in Threads |-> <<>>]
    /\ arg = [t \in Threads |-> NoArg]
    /\ items = [t \in Threads |-> <<>>]
    /\ results = [t \in Threads |-> <<>>]
    /\ ok = [t \in Threads |-> TRUE]
    /\ lines = [t \in Threads |-> <<>>]
    /\ file = [exists |-> FALSE, lines |-> <<>>]
    /\ calls = 0
    /\ lastOk = <<>>
    /\ clean = [t \in Threads |-> FALSE]
    /\ src = <<>>
    /\ fresh = FALSE
    /\ agg = [t \in Threads |-> None]
    /\ shown = NoGet
    /\ want = <<>>

(***************************************************************************)
(* sled::Db operations                                                     *)
(***************************************************************************)

\* Db::insert(key, value)
Put(tree, k, v) == (k :> v) @@ tree

\* Db::remove(key)
Remove(tree, k) == [x \in (DOMAIN tree) \ {k} |-> tree[x]]

\* Db::scan_prefix(prefix): the values of the matching entries, in key order
scan_prefix(tree, prefix) ==
    LET ks == SortKeys({k \in DOMAIN tree : IsPrefix(prefix, k)})
    IN  [i \in 1..Len(ks) |-> tree[ks[i]]]

\* Db::range(start..end): the values of the entries with start <= key < end,
\* in key order
range(tree, start, end) ==
    LET ks == SortKeys({k \in DOMAIN tree : LexLeq(start, k) /\ LexLess(k, end)})
    IN  [i \in 1..Len(ks) |-> tree[ks[i]]]

(***************************************************************************)
(* Calls                                                                   *)
(***************************************************************************)

\* thread t is between calls
Callable(t) == pc[t] \in {"idle", "ret"} /\ calls < MaxCalls

\* the locals of thread t at the start of a call
Enter(t, o, k, d, td, a) ==
    /\ op' = [op EXCEPT ![t] = o]
    /\ ok' = [ok EXCEPT ![t] = TRUE]
    /\ key' = [key EXCEPT ![t] = k]
    /\ doc' = [doc EXCEPT ![t] = d]
    /\ todo' = [todo EXCEPT ![t] = td]
    /\ arg' = [arg EXCEPT ![t] = a]
    /\ calls' = calls + 1

\* history: thread t has written or removed the keys ks in db; mine: by an
\* insert of its own key
Mutated(t, ks, mine) ==
    clean' = [u \in Threads |->
                 IF u = t THEN mine
                 ELSE IF key[u] \in ks THEN FALSE ELSE clean[u]]

\* history: lastOk once the keys ks are mutated, then k is known to hold d
Forget(ks) == [x \in (DOMAIN lastOk) \ ks |-> lastOk[x]]

\* Option<Document> of get(key), as a sequence of at most one document
get(k) ==
    IF k \in DOMAIN db /\ from_slice(db[k]).ok
    THEN <<from_slice(db[k]).doc>>
    ELSE <<>>


(***************************************************************************)
(* Neemo::insert                                                           *)
(***************************************************************************)

\* the first index key the loop of insert / delete has still to visit
NextIndexKey(t) == index_key(Head(todo[t]), doc[t][Head(todo[t])])

\* where insert returns to: the loop of import (line 195) while it has lines
\* left, the caller otherwise
AfterInsert(t) ==
    IF op[t] = "import" /\ lines[t] # <<>> THEN "import_loop" ELSE "ret"

\* Insert with a plausible slip: a document already stored under the key is
\* kept instead of replaced
InsertKeepsOld(t, k, d, ord) ==
    /\ Callable(t)
    /\ dbLock = NoThread
    /\ db' = IF k \in DOMAIN db THEN db ELSE Put(db, k, to_string(d, ord))
    /\ Enter(t, "insert", k, d, ord, NoArg)
    /\ pc' = [pc EXCEPT ![t] = IF ord = <<>> THEN "ret" ELSE "insert_index"]
    /\ Mutated(t, {k}, TRUE)
    /\ lastOk' = IF ord = <<>> THEN Put(Forget({k}), k, d) ELSE Forget({k})
    /\ results' = [results EXCEPT ![t] = <<>>]
    /\ UNCHANGED <<more, index, dbLock, indexLock, items, xfer>>

\* lines 39-40: serialize doc, lock db, write it under key, unlock.  ord is
\* the iteration order of doc.data, which the loop of line 42 follows too.
Insert(t, k, d, ord) ==
    /\ Callable(t)
    /\ dbLock = NoThread
    /\ db' = Put(db, k, to_string(d, ord))
    /\ Enter(t, "insert", k, d, ord, NoArg)
    /\ pc' = [pc EXCEPT ![t] = IF ord = <<>> THEN "ret" ELSE "insert_index"]
    /\ Mutated(t, {k}, TRUE)
    /\ lastOk' = IF ord = <<>> THEN Put(Forget({k}), k, d) ELSE Forget({k})
    /\ results' = [results EXCEPT ![t] = <<>>]
    /\ UNCHANGED <<more, index, dbLock, indexLock, items, xfer>>

\* lines 42-46: one turn of the loop: lock index, write index_key -> key,
\* unlock; Ok(()) after the last field
InsertIndex(t) ==
    /\ pc[t] = "insert_index"
    /\ indexLock = NoThread
    /\ index' = Put(index, NextIndexKey(t), key[t])
    /\ todo' = [todo EXCEPT ![t] = Tail(todo[t])]
    /\ pc' = [pc EXCEPT ![t] = IF Tail(todo[t]) = <<>> THEN AfterInsert(t)
                               ELSE "insert_index"]
    /\ lastOk' = IF Tail(todo[t]) = <<>> /\ clean[t] /\ op[t] = "insert"
                 THEN Put(lastOk, key[t], doc[t]) ELSE lastOk
    /\ UNCHANGED <<more, db, dbLock, indexLock, op, key, doc, arg, items, results,
                   calls, clean, ok, xfer>>

(***************************************************************************)
(* Neemo::get                                                              *)
(***************************************************************************)

\* line 51: lock db, read key, deserialize
Get(t, k) ==
    /\ Callable(t)
    /\ dbLock = NoThread
    /\ results' = [results EXCEPT ![t] = get(k)]
    /\ Enter(t, "get", k, EmptyDoc, <<>>, NoArg)
    /\ pc' = [pc EXCEPT ![t] = "ret"]
    /\ UNCHANGED <<more, db, index, dbLock, indexLock, items, lastOk, clean, xfer>>

(***************************************************************************)
(* Neemo::delete                                                           *)
(***************************************************************************)

\* Delete with a plausible slip: a key that holds no document is reported
\* as an error
DeleteAbsentIsError(t, k) ==
    /\ Callable(t)
    /\ dbLock = NoThread
    /\ db' = Remove(db, k)
    /\ Mutated(t, {k}, FALSE)
    /\ lastOk' = Forget({k})
    /\ results' = [results EXCEPT ![t] = <<>>]
    /\ IF k \in DOMAIN db /\ from_slice(db[k]).ok
       THEN \E ord \in Orders(from_slice(db[k]).doc) :
               /\ Enter(t, "delete", k, from_slice(db[k]).doc, ord, NoArg)
               /\ dbLock' = IF ord = <<>> THEN NoThread ELSE t
               /\ pc' = [pc EXCEPT ![t] = IF ord = <<>> THEN "ret" ELSE "delete_index"]
       ELSE /\ op' = [op EXCEPT ![t] = "delete"]
            /\ ok' = [ok EXCEPT ![t] = FALSE]
            /\ key' = [key EXCEPT ![t] = k]
            /\ doc' = [doc EXCEPT ![t] = EmptyDoc]
            /\ todo' = [todo EXCEPT ![t] = <<>>]
            /\ arg' = [arg EXCEPT ![t] = NoArg]
            /\ calls' = calls + 1
            /\ dbLock' = NoThread
            /\ pc' = [pc EXCEPT ![t] = "ret"]
    /\ UNCHANGED <<more, index, indexLock, items, xfer>>

\* lines 56-57: lock db and remove key.  The guard of the db lock is a
\* temporary of the `if let` scrutinee: it lives to the end of the `if let`,
\* so the lock stays held while the loop of lines 58-61 runs.  With no
\* document under key (or an empty one) the call returns at once.
Delete(t, k) ==
    /\ Callable(t)
    /\ dbLock = NoThread
    /\ db' = Remove(db, k)
    /\ Mutated(t, {k}, FALSE)
    /\ lastOk' = Forget({k})
    /\ results' = [results EXCEPT ![t] = <<>>]
    /\ IF k \in DOMAIN db /\ from_slice(db[k]).ok
       THEN \E ord \in Orders(from_slice(db[k]).doc) :
               /\ Enter(t, "delete", k, from_slice(db[k]).doc, ord, NoArg)
               /\ dbLock' = IF ord = <<>> THEN NoThread ELSE t
               /\ pc' = [pc EXCEPT ![t] = IF ord = <<>> THEN "ret" ELSE "delete_index"]
       ELSE /\ Enter(t, "delete", k, EmptyDoc, <<>>, NoArg)
            /\ dbLock' = NoThread
            /\ pc' = [pc EXCEPT ![t] = "ret"]
    /\ UNCHANGED <<more, index, indexLock, items, xfer>>

\* lines 58-63: one turn of the loop, the db lock held: lock index, remove
\* index_key, unlock; after the last field the db lock is released
DeleteIndex(t) ==
    /\ pc[t] = "delete_index"
    /\ indexLock = NoThread
    /\ index' = Remove(index, NextIndexKey(t))
    /\ todo' = [todo EXCEPT ![t] = Tail(todo[t])]
    /\ pc' = [pc EXCEPT ![t] = IF Tail(todo[t]) = <<>> THEN "ret" ELSE "delete_index"]
    /\ dbLock' = IF Tail(todo[t]) = <<>> THEN NoThread ELSE dbLock
    /\ UNCHANGED <<more, db, indexLock, op, key, doc, arg, items, results, calls,
                   lastOk, clean, ok, xfer>>

(***************************************************************************)
(* Neemo::query and Neemo::range_query                                     *)
(***************************************************************************)

\* the results once the document under doc_key is fetched (lines 73-77,
\* 107-111): pushed if present and well-formed
Fetched(res, doc_key) == res \o get(doc_key)

\* lines 68-71: lock index and scan the prefix.  The guard of the index lock
\* is a temporary of the `for` iterator expression: the lock is held until
\* the loop ends.
Query(t, field, value) ==
    /\ Callable(t)
    /\ indexLock = NoThread
    /\ LET its == scan_prefix(index, index_key(field, value))
       IN  /\ items' = [items EXCEPT ![t] = its]
           /\ indexLock' = IF its = <<>> THEN NoThread ELSE t
           /\ pc' = [pc EXCEPT ![t] = IF its = <<>> THEN "ret" ELSE "query_fetch"]
    /\ results' = [results EXCEPT ![t] = <<>>]
    /\ Enter(t, "query", <<>>, EmptyDoc, <<>>,
             [field |-> field, lo |-> value, hi |-> value])
    /\ UNCHANGED <<more, db, index, dbLock, lastOk, clean, xfer>>

\* QueryFetch with a plausible slip: the index lock is still held when the
\* loop has ended
QueryFetchKeepsLock(t) ==
    /\ pc[t] = "query_fetch"
    /\ dbLock = NoThread
    /\ results' = [results EXCEPT ![t] = Fetched(results[t], Head(items[t]))]
    /\ items' = [items EXCEPT ![t] = Tail(items[t])]
    /\ pc' = [pc EXCEPT ![t] = IF Tail(items[t]) = <<>> THEN "ret" ELSE "query_fetch"]
    /\ UNCHANGED <<more, db, index, dbLock, indexLock, op, key, doc, todo, arg, calls,
                   lastOk, clean, ok, xfer>>

\* lines 72-80: one turn of the loop, the index lock held: lock db, fetch
\* the document, unlock; after the last item the index lock is released
QueryFetch(t) ==
    /\ pc[t] = "query_fetch"
    /\ dbLock = NoThread
    /\ results' = [results EXCEPT ![t] = Fetched(results[t], Head(items[t]))]
    /\ items' = [items EXCEPT ![t] = Tail(items[t])]
    /\ pc' = [pc EXCEPT ![t] = IF Tail(items[t]) = <<>> THEN "ret" ELSE "query_fetch"]
    /\ indexLock' = IF Tail(items[t]) = <<>> THEN NoThread ELSE indexLock
    /\ UNCHANGED <<more, db, index, dbLock, op, key, doc, todo, arg, calls, lastOk, clean, ok, xfer>>

\* lines 101-105: lock index and open the range start_key..end_key
RangeQuery(t, field, start, end) ==
    /\ Callable(t)
    /\ indexLock = NoThread
    /\ LET its == range(index, index_key(field, start), index_key(field, end))
       IN  /\ items' = [items EXCEPT ![t] = its]
           /\ indexLock' = IF its = <<>> THEN NoThread ELSE t
           /\ pc' = [pc EXCEPT ![t] = IF its = <<>> THEN "ret" ELSE "range_fetch"]
    /\ results' = [results EXCEPT ![t] = <<>>]
    /\ Enter(t, "range_query", <<>>, EmptyDoc, <<>>,
             [field |-> field, lo |-> start, hi |-> end])
    /\ UNCHANGED <<more, db, index, dbLock, lastOk, clean, xfer>>

\* lines 106-114: one turn of the loop, the index lock held
RangeFetch(t) ==
    /\ pc[t] = "range_fetch"
    /\ dbLock = NoThread
    /\ results' = [results EXCEPT ![t] = Fetched(results[t], Head(items[t]))]
    /\ items' = [items EXCEPT ![t] = Tail(items[t])]
    /\ pc' = [pc EXCEPT ![t] = IF Tail(items[t]) = <<>> THEN "ret" ELSE "range_fetch"]
    /\ indexLock' = IF Tail(items[t]) = <<>> THEN NoThread ELSE indexLock
    /\ UNCHANGED <<more, db, index, dbLock, op, key, doc, todo, arg, calls, lastOk, clean, ok, xfer>>

(***************************************************************************)
(* Neemo::transaction and Neemo::batch                                     *)
(***************************************************************************)

\* the closure of the BATCH command (main, lines 329-335): doc1 and doc2
\* written to db, the index untouched
BatchClosure(tree) ==
    Put(Put(tree, KeyDoc1, to_string(Doc1(Name, Str(Alice)), <<Name>>)),
        KeyDoc2, to_string(Doc1(Name, Str(Bob)), <<Name>>))

\* line 96, first argument: lock db and keep it
Transaction(t) ==
    /\ Callable(t)
    /\ dbLock = NoThread
    /\ dbLock' = t
    /\ pc' = [pc EXCEPT ![t] = "transaction_index"]
    /\ results' = [results EXCEPT ![t] = <<>>]
    /\ Enter(t, "transaction", <<>>, EmptyDoc, <<>>, NoArg)
    /\ UNCHANGED <<more, db, index, indexLock, items, lastOk, clean, xfer>>

\* line 96, second argument and call: lock index, run the closure (one that
\* writes nothing), release both locks
TransactionRun(t) ==
    /\ pc[t] = "transaction_index"
    /\ indexLock = NoThread
    /\ dbLock' = NoThread
    /\ pc' = [pc EXCEPT ![t] = "ret"]
    /\ UNCHANGED <<more, db, index, indexLock, op, key, doc, todo, arg, items, results,
                   calls, lastOk, clean, ok, xfer>>

\* line 171, first argument: lock db and keep it
Batch(t) ==
    /\ Callable(t)
    /\ dbLock = NoThread
    /\ dbLock' = t
    /\ pc' = [pc EXCEPT ![t] = "batch_index"]
    /\ results' = [results EXCEPT ![t] = <<>>]
    /\ Enter(t, "batch", <<>>, EmptyDoc, <<>>, NoArg)
    /\ UNCHANGED <<more, db, index, indexLock, items, lastOk, clean, xfer>>

\* line 171, second argument and call: lock index, run the closure, release
\* both locks
BatchRun(t) ==
    /\ pc[t] = "batch_index"
    /\ indexLock = NoThread
    /\ db' = BatchClosure(db)
    /\ dbLock' = NoThread
    /\ pc' = [pc EXCEPT ![t] = "ret"]
    /\ Mutated(t, {KeyDoc1, KeyDoc2}, FALSE)
    /\ lastOk' = Forget({KeyDoc1, KeyDoc2})
    /\ UNCHANGED <<more, index, indexLock, op, key, doc, todo, arg, items, results, calls, ok, xfer>>

(***************************************************************************)
(* Neemo::new, Neemo::export and Neemo::import                             *)
(***************************************************************************)

\* lines 28-34 on a path that holds no database yet: both trees are created
\* empty, behind new mutexes.  The threads are between calls.
New ==
    /\ \A t \in Threads : pc[t] \in {"idle", "ret"}
    /\ db' = <<>>
    /\ index' = <<>>
    /\ dbLock' = NoThread
    /\ indexLock' = NoThread
    /\ lastOk' = <<>>
    /\ clean' = [t \in Threads |-> FALSE]
    /\ UNCHANGED <<more, pc, op, key, doc, todo, arg, items, results, ok, calls, xfer>>

\* lines 179-186: the lines export can write for the documents under the
\* keys ks (in key order): each well-formed document serialized in some
\* iteration order of its HashMap
RECURSIVE ExportLines(_)
ExportLines(ks) ==
    IF ks = <<>> THEN {<<>>}
    ELSE LET p == from_slice(db[Head(ks)])
         IN  IF ~p.ok THEN ExportLines(Tail(ks))
             ELSE {<<to_string(p.doc, ord)>> \o rest :
                     ord \in Orders(p.doc), rest \in ExportLines(Tail(ks))}

\* lines 176-187: create the file, lock db for the whole iteration, write
\* one line per document
Export(t) ==
    /\ Callable(t)
    /\ dbLock = NoThread
    /\ \E ls \in ExportLines(SortKeys(DOMAIN db)) :
          file' = [exists |-> TRUE, lines |-> ls]
    /\ src' = [k \in DOMAIN db |-> get(k)]
    /\ results' = [results EXCEPT ![t] = <<>>]
    /\ Enter(t, "export", <<>>, EmptyDoc, <<>>, NoArg)
    /\ pc' = [pc EXCEPT ![t] = "ret"]
    /\ UNCHANGED <<more, db, index, dbLock, indexLock, items, lines, fresh, lastOk, clean>>

\* lines 192-195: open the file (Err if there is none) and start reading
Import(t) ==
    /\ Callable(t)
    /\ lines' = [lines EXCEPT ![t] = file.lines]
    /\ fresh' = (db = <<>>)
    /\ results' = [results EXCEPT ![t] = <<>>]
    /\ op' = [op EXCEPT ![t] = "import"]
    /\ ok' = [ok EXCEPT ![t] = file.exists]
    /\ key' = [key EXCEPT ![t] = <<>>]
    /\ doc' = [doc EXCEPT ![t] = EmptyDoc]
    /\ todo' = [todo EXCEPT ![t] = <<>>]
    /\ arg' = [arg EXCEPT ![t] = NoArg]
    /\ calls' = calls + 1
    /\ pc' = [pc EXCEPT ![t] = IF file.lines = <<>> THEN "ret" ELSE "import_loop"]
    /\ UNCHANGED <<more, db, index, dbLock, indexLock, items, file, src, lastOk, clean>>

\* lines 196-198 and, in insert, 39-40: read a line; if it is a document,
\* insert it under the key to_string(&doc), its own serialization
ImportLine(t) ==
    /\ pc[t] = "import_loop"
    /\ lines' = [lines EXCEPT ![t] = Tail(lines[t])]
    /\ LET p == from_slice(Head(lines[t]))
       IN  IF p.ok
           THEN /\ dbLock = NoThread
                /\ \E ord \in Orders(p.doc) :
                      /\ db' = Put(db, to_string(p.doc, ord), to_string(p.doc, ord))
                      /\ key' = [key EXCEPT ![t] = to_string(p.doc, ord)]
                      /\ doc' = [doc EXCEPT ![t] = p.doc]
                      /\ todo' = [todo EXCEPT ![t] = ord]
                      /\ Mutated(t, {to_string(p.doc, ord)}, TRUE)
                      /\ lastOk' = Forget({to_string(p.doc, ord)})
                      /\ pc' = [pc EXCEPT ![t] =
                                  IF ord # <<>> THEN "insert_index"
                                  ELSE IF Tail(lines[t]) # <<>> THEN "import_loop"
                                  ELSE "ret"]
           ELSE /\ pc' = [pc EXCEPT ![t] = IF Tail(lines[t]) # <<>> THEN "import_loop"
                                           ELSE "ret"]
                /\ UNCHANGED <<db, key, doc, todo, lastOk, clean>>
    /\ UNCHANGED <<more, index, dbLock, indexLock, op, arg, items, results, ok, file,
                   src, fresh, calls>>

(***************************************************************************)
(* Threads calling the methods concurrently                                *)
(***************************************************************************)

Next ==
    \E t \in Threads :
        \/ \E k \in Keys, d \in Docs : \E ord \in Orders(d) : Insert(t, k, d, ord)
        \/ InsertIndex(t)
        \/ \E k \in Keys : Get(t, k)
        \/ \E k \in Keys : Delete(t, k)
        \/ DeleteIndex(t)
        \/ \E q \in Queries : Query(t, q[1], q[2])
        \/ QueryFetch(t)
        \/ \E r \in Ranges : RangeQuery(t, r[1], r[2], r[3])
        \/ RangeFetch(t)
        \/ Transaction(t)
        \/ TransactionRun(t)
        \/ Batch(t)
        \/ BatchRun(t)

Spec == Init /\ [][Next]_vars

(***************************************************************************)
(* One thread calling the methods one after the other                      *)
(***************************************************************************)

T1 == "t1"

\* documents, queries and ranges of SeqSpec
SeqDocs ==
    {Doc1(Age, Num(3)), Doc1(Age, Num(30)), Doc1(N, Num(9)), Doc1(N, Num(10)),
     Doc1(N, Num(100)), Doc2(Age, Num(30), N, Num(9)), EmptyDoc}

SeqQueries == {<<Age, Num(3)>>, <<Age, Num(30)>>, <<N, Num(9)>>}

SeqRanges == {<<N, Num(0), Num(50)>>, <<N, Num(9), Num(100)>>}

SeqNext ==
    \/ \E k \in Keys, d \in SeqDocs : \E ord \in Orders(d) : Insert(T1, k, d, ord)
    \/ InsertIndex(T1)
    \/ \E k \in Keys : Get(T1, k)
    \/ \E k \in Keys : Delete(T1, k)
    \/ DeleteIndex(T1)
    \/ \E q \in SeqQueries : Query(T1, q[1], q[2])
    \/ QueryFetch(T1)
    \/ \E r \in SeqRanges : RangeQuery(T1, r[1], r[2], r[3])
    \/ RangeFetch(T1)

SeqSpec == Init /\ [][SeqNext]_vars

(***************************************************************************)
(* One thread filling a store, exporting it and importing the file         *)
(***************************************************************************)

XferDocs == {Doc1(Age, Num(3)), Doc2(Age, Num(30), N, Num(9))}

XferNext ==
    \/ \E k \in Keys, d \in XferDocs : \E ord \in Orders(d) : Insert(T1, k, d, ord)
    \/ InsertIndex(T1)
    \/ \E k \in Keys : Delete(T1, k)
    \/ DeleteIndex(T1)
    \/ Export(T1)
    \/ New
    \/ Import(T1)
    \/ ImportLine(T1)

XferSpec == Init /\ [][XferNext]_vars

(***************************************************************************)
(* Properties                                                              *)
(***************************************************************************)

\* no call is in flight
Quiescent == \A t \in Threads : pc[t] \in {"idle", "ret"}

\* the live documents: key -> document, for the keys get finds
Live == [k \in {x \in DOMAIN db : get(x) # <<>>} |-> get(k)[1]]

\* document d has the number or string v in field f
Holds(d, f, v) == f \in DOMAIN d /\ d[f] = v

\* the elements of a sequence
Elems(sq) == {sq[i] : i \in DOMAIN sq}

\* C1 (Multiplicity): when query(field, value) has returned, with no other
\* call in between, its result holds every live document whose field equals
\* value: as many matching documents as there are live keys holding one.
C1_QueryReturnsEveryMatch ==
    \A t \in Threads :
        pc[t] = "ret" /\ op[t] = "query" =>
            Cardinality({k \in DOMAIN Live : Holds(Live[k], arg[t].field, arg[t].lo)})
                <= Cardinality({i \in DOMAIN results[t] :
                                  Holds(results[t][i], arg[t].field, arg[t].lo)})

\* C2 (No orphans): in every quiescent state, the document key of every
\* index entry is present in the primary store.
C2_NoOrphans ==
    Quiescent => \A ik \in DOMAIN index : index[ik] \in DOMAIN db

\* thread t holds the index lock and waits for the db lock
HoldsIndexWantsDb(t) == indexLock = t /\ pc[t] \in {"query_fetch", "range_fetch"}

\* thread t holds the db lock and waits for the index lock
HoldsDbWantsIndex(t) ==
    dbLock = t /\ pc[t] \in {"delete_index", "transaction_index", "batch_index"}

\* C3 (No indefinite blocking): no state is reached in which one thread
\* holds the index lock waiting for the db lock while another holds the db
\* lock waiting for the index lock.
C3_NoLockCycle ==
    \A a, b \in Threads : ~(HoldsIndexWantsDb(a) /\ HoldsDbWantsIndex(b))

\* C4 (No mixed state): a reader whose get(key) has returned the document of
\* an insert(key, d) still in flight finds an index entry for every (field,
\* value) pair of d: it never sees the document while an entry is missing.
C4_NoMixedState ==
    \A r, m \in Threads :
        /\ pc[r] = "ret" /\ op[r] = "get"
        /\ pc[m] = "insert_index" /\ op[m] = "insert"
        /\ key[r] = key[m] /\ results[r] = <<doc[m]>>
        => \A f \in DOMAIN doc[m] : index_key(f, doc[m][f]) \in DOMAIN index

\* C5: once two inserts of distinct keys, run concurrently on an empty store,
\* have both returned, every (field, value) pair of each document has an
\* index entry, and that entry does not reference the other key.
C5_ConcurrentInserts ==
    \A a, b \in Threads :
        /\ a # b /\ calls = 2
        /\ pc[a] = "ret" /\ op[a] = "insert"
        /\ pc[b] = "ret" /\ op[b] = "insert"
        /\ key[a] # key[b]
        => \A f \in DOMAIN doc[a] :
              /\ index_key(f, doc[a][f]) \in DOMAIN index
              /\ index[index_key(f, doc[a][f])] # key[b]

\* C6 (Delete completeness): when delete(key) has returned, get(key) finds
\* nothing and, for every (field, value) pair of the deleted document, the
\* prefix scan of query(field, value) yields no entry whose payload is key.
C6_DeleteComplete ==
    \A t \in Threads :
        pc[t] = "ret" /\ op[t] = "delete" /\ ok[t] =>
            /\ get(key[t]) = <<>>
            /\ \A f \in DOMAIN doc[t] :
                  key[t] \notin Elems(scan_prefix(index, index_key(f, doc[t][f])))

\* C7 (Overwrite retracts old index entries): in every quiescent state, for
\* every index entry (field, value) -> key with key live, the live document
\* at key has field = value.
C7_EntriesMatchLiveDocument ==
    Quiescent =>
        \A ik \in DOMAIN index :
            index[ik] \in DOMAIN Live =>
                \E f \in DOMAIN Live[index[ik]] :
                    index_key(f, Live[index[ik]][f]) = ik

\* C8 (Round trip): once insert(key, d) has returned Ok and no other
\* mutation of key has intervened since it wrote, get(key) returns a
\* document equal to d.
C8_RoundTrip ==
    \A k \in DOMAIN lastOk : get(k) = <<lastOk[k]>>

\* C8 witness: get(key) has returned the document d of a completed insert
\* that replaced another document at key (an index entry of that other
\* document, for a pair d does not have, references key).
C8_Witness ==
    \E t \in Threads :
        /\ pc[t] = "ret" /\ op[t] = "get"
        /\ key[t] \in DOMAIN lastOk
        /\ results[t] = <<lastOk[key[t]]>>
        /\ \E ik \in DOMAIN index :
              /\ index[ik] = key[t]
              /\ \A f \in DOMAIN lastOk[key[t]] :
                    index_key(f, lastOk[key[t]][f]) # ik

\* document d has a number v in the field of range a with lo <= v < hi
InRange(d, a) ==
    /\ a.field \in DOMAIN d
    /\ d[a.field].t = "num"
    /\ a.lo.n <= d[a.field].n
    /\ d[a.field].n < a.hi.n

\* C9 (Range ordering): when range_query(field, start, end) has returned,
\* with no other call in between, its result holds exactly the live
\* documents whose value v satisfies start <= v < end numerically, in
\* ascending numeric order.
C9_RangeNumeric ==
    \A t \in Threads :
        pc[t] = "ret" /\ op[t] = "range_query" =>
            /\ \A i \in DOMAIN results[t] : InRange(results[t][i], arg[t])
            /\ Len(results[t]) =
                  Cardinality({k \in DOMAIN Live : InRange(Live[k], arg[t])})
            /\ \A i, j \in DOMAIN results[t] :
                  i < j => results[t][i][arg[t].field].n <= results[t][j][arg[t].field].n

\* C10 (Export/import idempotence): when an import that started on an empty
\* store has returned Ok, the store holds exactly the keys of the exported
\* store and, under each key, the exported document.
C10_ImportReproducesExport ==
    \A t \in Threads :
        pc[t] = "ret" /\ op[t] = "import" /\ ok[t] /\ fresh =>
            /\ DOMAIN db = DOMAIN src
            /\ \A k \in DOMAIN src : get(k) = src[k]


(***************************************************************************)
(* Neemo::insert when the storage engine fails a write                     *)
(***************************************************************************)

\* line 40: Db::insert on db returns Err and `?` returns it to the caller;
\* nothing was written
InsertFails(t, k, d, ord) ==
    /\ Callable(t)
    /\ dbLock = NoThread
    /\ op' = [op EXCEPT ![t] = "insert"]
    /\ ok' = [ok EXCEPT ![t] = FALSE]
    /\ key' = [key EXCEPT ![t] = k]
    /\ doc' = [doc EXCEPT ![t] = d]
    /\ todo' = [todo EXCEPT ![t] = ord]
    /\ arg' = [arg EXCEPT ![t] = NoArg]
    /\ calls' = calls + 1
    /\ pc' = [pc EXCEPT ![t] = "ret"]
    /\ results' = [results EXCEPT ![t] = <<>>]
    /\ UNCHANGED <<more, db, index, dbLock, indexLock, items, lastOk, clean, xfer>>

\* line 44: Db::insert on index returns Err in some turn of the loop and `?`
\* returns it to the caller; the writes of lines 40 and 44 made so far stay
InsertIndexFails(t) ==
    /\ pc[t] = "insert_index"
    /\ op[t] = "insert"
    /\ indexLock = NoThread
    /\ ok' = [ok EXCEPT ![t] = FALSE]
    /\ pc' = [pc EXCEPT ![t] = "ret"]
    /\ UNCHANGED <<more, db, index, dbLock, indexLock, op, key, doc, todo, arg,
                   items, results, calls, lastOk, clean, xfer>>

\* documents of FailSpec
FailDocs == {Doc1(Age, Num(30)), Doc2(Age, Num(30), Name, Str(Bob)), EmptyDoc}

\* one thread inserting and reading, the engine free to fail any write
FailNext ==
    \/ \E k \in Keys, d \in FailDocs : \E ord \in Orders(d) : Insert(T1, k, d, ord)
    \/ InsertIndex(T1)
    \/ \E k \in Keys, d \in FailDocs : \E ord \in Orders(d) : InsertFails(T1, k, d, ord)
    \/ InsertIndexFails(T1)
    \/ \E k \in Keys : Get(T1, k)

FailSpec == Init /\ [][FailNext]_vars

\* C11 (Logical atomicity on failure): when the first insert on a new
\* store has returned an error, neither store has been changed: both are
\* still empty, and the new document is not stored with only some or none of
\* its index entries.
C11_FailedInsertChangesNothing ==
    \A t \in Threads :
        pc[t] = "ret" /\ op[t] = "insert" /\ ~ok[t] /\ calls = 1 =>
            db = <<>> /\ index = <<>>


(***************************************************************************)
(* The command loop of main: INSERT and DELETE run on spawned threads      *)
(***************************************************************************)

\* history: want once a command that leaves content c under key k is accepted
Accepted(k, c) == want' = Put(want, k, c)

\* lines 255-277: INSERT key: read the fields, spawn a thread that is to call
\* insert(key, doc), and go on to the next command without joining it
CmdInsert(t, k, d, ord) ==
    /\ Callable(t)
    /\ Enter(t, "insert", k, d, ord, NoArg)
    /\ pc' = [pc EXCEPT ![t] = "spawned"]
    /\ Accepted(k, <<d>>)
    /\ UNCHANGED <<db, index, dbLock, indexLock, items, results, lastOk, clean,
                   xfer, agg, shown>>

\* lines 273-274, 39-40: the spawned thread starts insert: lock db, write the
\* serialized document, unlock
SpawnedInsert(t) ==
    /\ pc[t] = "spawned"
    /\ op[t] = "insert"
    /\ dbLock = NoThread
    /\ db' = Put(db, key[t], to_string(doc[t], todo[t]))
    /\ pc' = [pc EXCEPT ![t] = IF todo[t] = <<>> THEN "ret" ELSE "insert_index"]
    /\ Mutated(t, {key[t]}, TRUE)
    /\ lastOk' = IF todo[t] = <<>> THEN Put(Forget({key[t]}), key[t], doc[t])
                 ELSE Forget({key[t]})
    /\ UNCHANGED <<more, index, dbLock, indexLock, op, key, doc, todo, arg, items,
                   results, ok, calls, xfer>>

\* lines 286-293: DELETE key: spawn a thread that is to call delete(key)
CmdDelete(t, k) ==
    /\ Callable(t)
    /\ Enter(t, "delete", k, EmptyDoc, <<>>, NoArg)
    /\ pc' = [pc EXCEPT ![t] = "spawned"]
    /\ Accepted(k, <<>>)
    /\ UNCHANGED <<db, index, dbLock, indexLock, items, results, lastOk, clean,
                   xfer, agg, shown>>

\* lines 289-290, 56-57: the spawned thread starts delete: lock db and remove
\* the key; the lock stays held over the loop of lines 58-61
SpawnedDelete(t) ==
    /\ pc[t] = "spawned"
    /\ op[t] = "delete"
    /\ dbLock = NoThread
    /\ db' = Remove(db, key[t])
    /\ Mutated(t, {key[t]}, FALSE)
    /\ lastOk' = Forget({key[t]})
    /\ IF key[t] \in DOMAIN db /\ from_slice(db[key[t]]).ok
       THEN \E ord \in Orders(from_slice(db[key[t]]).doc) :
               /\ doc' = [doc EXCEPT ![t] = from_slice(db[key[t]]).doc]
               /\ todo' = [todo EXCEPT ![t] = ord]
               /\ dbLock' = IF ord = <<>> THEN NoThread ELSE t
               /\ pc' = [pc EXCEPT ![t] = IF ord = <<>> THEN "ret" ELSE "delete_index"]
       ELSE /\ UNCHANGED <<doc, todo, dbLock>>
            /\ pc' = [pc EXCEPT ![t] = "ret"]
    /\ UNCHANGED <<more, index, indexLock, op, key, arg, items, results, ok,
                   calls, xfer>>

\* lines 279-285: GET key: the main thread itself calls get(key) (line 51)
\* and prints what it finds
CmdGet(k) ==
    /\ dbLock = NoThread
    /\ shown' = [key |-> k, got |-> get(k),
                 want |-> IF k \in DOMAIN want THEN want[k] ELSE <<>>]
    /\ UNCHANGED <<db, index, dbLock, indexLock, pc, op, key, doc, todo, arg,
                   items, results, ok, calls, lastOk, clean, xfer, agg, want>>

\* documents of CmdSpec
CmdDocs == {Doc1(Age, Num(30))}

\* the main thread reading commands, two spawned threads running them
CmdNext ==
    \/ \E t \in Threads, k \in Keys, d \in CmdDocs :
           \E ord \in Orders(d) : CmdInsert(t, k, d, ord)
    \/ \E t \in Threads, k \in Keys : CmdDelete(t, k)
    \/ \E k \in Keys : CmdGet(k)
    \/ \E t \in Threads :
           \/ SpawnedInsert(t)
           \/ InsertIndex(t)
           \/ SpawnedDelete(t)
           \/ DeleteIndex(t)

CmdSpec == Init /\ [][CmdNext]_vars

\* C12 (Read-after-write at the command surface): a GET reads, for its key,
\* what the INSERT and DELETE commands accepted before it leave there; and
\* once every spawned thread has returned, each key holds what the commands
\* accepted for it, in order, leave (INSERT k then DELETE k leaves k absent).
C12_ReadAfterWrite ==
    /\ shown.got = shown.want
    /\ Quiescent => \A k \in DOMAIN want : get(k) = want[k]


(***************************************************************************)
(* The process stopping and a later session opening the database again     *)
(***************************************************************************)

\* the process stops, at any point of a call: on EXIT main returns (lines
\* 393-396) while the threads it spawned are still running, or the process
\* is killed.  What the calls wrote so far stays in the two trees; op, key
\* and todo keep what each thread was doing.
Stop ==
    /\ \E t \in Threads : pc[t] # "stopped"
    /\ pc' = [t \in Threads |-> "stopped"]
    /\ UNCHANGED <<more, db, index, dbLock, indexLock, op, key, doc, todo, arg,
                   items, results, ok, calls, lastOk, clean, xfer>>

\* lines 28-34 on the path of the stopped process: sled::open finds both
\* trees as they were left and wraps them in new mutexes; nothing compares
\* the index with the primary store
Reopen ==
    /\ \A t \in Threads : pc[t] = "stopped"
    /\ pc' = [t \in Threads |-> "idle"]
    /\ op' = [t \in Threads |-> "new"]
    /\ dbLock' = NoThread
    /\ indexLock' = NoThread
    /\ key' = [t \in Threads |-> <<>>]
    /\ doc' = [t \in Threads |-> EmptyDoc]
    /\ todo' = [t \in Threads |-> <<>>]
    /\ arg' = [t \in Threads |-> NoArg]
    /\ items' = [t \in Threads |-> <<>>]
    /\ results' = [t \in Threads |-> <<>>]
    /\ ok' = [t \in Threads |-> TRUE]
    /\ clean' = [t \in Threads |-> FALSE]
    /\ UNCHANGED <<more, db, index, calls, lastOk, xfer>>

\* documents of CrashSpec
CrashDocs == {Doc1(Age, Num(30)), Doc2(Age, Num(30), Name, Str(Bob))}

\* one thread inserting and deleting, the process stopping and starting again
CrashNext ==
    \/ \E k \in Keys, d \in CrashDocs : \E ord \in Orders(d) : Insert(T1, k, d, ord)
    \/ InsertIndex(T1)
    \/ \E k \in Keys : Delete(T1, k)
    \/ DeleteIndex(T1)
    \/ Stop
    \/ Reopen

CrashSpec == Init /\ [][CrashNext]_vars

\* thread t was between the first and the last store write of an insert or
\* a delete when the process stopped
StoppedBetweenWrites(t) ==
    pc[t] = "stopped" /\ op[t] \in {"insert", "delete"} /\ todo[t] # <<>>

\* the key of every index entry is in the primary store
NoDanglingEntry == \A ik \in DOMAIN index : index[ik] \in DOMAIN db

\* every live document has an index entry, leading to its key, for each of
\* its (field, value) pairs
EveryPairIndexed ==
    \A k \in DOMAIN Live : \A f \in DOMAIN Live[k] :
        /\ index_key(f, Live[k][f]) \in DOMAIN index
        /\ index[index_key(f, Live[k][f])] = k

\* C13 (Crash ordering): when the process has stopped between two store
\* writes of an insert or a delete, no index entry points at a missing
\* document and no live document lacks one of its index entries.
C13_CrashLeavesOnlyExtraEntries ==
    (\E t \in Threads : StoppedBetweenWrites(t)) =>
        NoDanglingEntry /\ EveryPairIndexed

\* C14 (Startup reconciliation): immediately after Neemo::new has opened the
\* database, whatever the previous session left, no index entry references a
\* key absent from the primary store.
C14_NoOrphanAfterOpen ==
    (\A t \in Threads : pc[t] = "idle" /\ op[t] = "new") => NoDanglingEntry


(***************************************************************************)
(* Neemo::backup and Neemo::restore                                        *)
(***************************************************************************)

\* line 207: lock db, flush it, unlock: the guard is a temporary of this
\* statement alone, so the copy of line 208 runs with no lock held
Backup(t) ==
    /\ Callable(t)
    /\ dbLock = NoThread
    /\ Enter(t, "backup", <<>>, EmptyDoc, <<>>, NoArg)
    /\ pc' = [pc EXCEPT ![t] = "backup_copy"]
    /\ results' = [results EXCEPT ![t] = <<>>]
    /\ UNCHANGED <<more, db, index, dbLock, indexLock, items, lastOk, clean, xfer>>

\* line 208: std::fs::copy(&self.db_path, path).  db_path is the directory
\* that holds the two trees (lines 28-29), and fs::copy of a directory
\* returns an error: backup returns Err and no file is written.
BackupCopy(t) ==
    /\ pc[t] = "backup_copy"
    /\ ok' = [ok EXCEPT ![t] = FALSE]
    /\ pc' = [pc EXCEPT ![t] = "ret"]
    /\ UNCHANGED <<more, db, index, dbLock, indexLock, op, key, doc, todo, arg,
                   items, results, calls, lastOk, clean, xfer>>

\* line 213: restore starts the copy at once, with no lock held
Restore(t) ==
    /\ Callable(t)
    /\ Enter(t, "restore", <<>>, EmptyDoc, <<>>, NoArg)
    /\ pc' = [pc EXCEPT ![t] = "restore_copy"]
    /\ results' = [results EXCEPT ![t] = <<>>]
    /\ UNCHANGED <<more, db, index, dbLock, indexLock, items, lastOk, clean, xfer>>

\* line 213: std::fs::copy(path, &self.db_path) cannot write onto the
\* directory db_path: it returns an error, `?` returns it, and the flush of
\* line 214 is not reached
RestoreCopy(t) ==
    /\ pc[t] = "restore_copy"
    /\ ok' = [ok EXCEPT ![t] = FALSE]
    /\ pc' = [pc EXCEPT ![t] = "ret"]
    /\ UNCHANGED <<more, db, index, dbLock, indexLock, op, key, doc, todo, arg,
                   items, results, calls, lastOk, clean, xfer>>

\* documents of BackupSpec
BackupDocs == {Doc1(Age, Num(30))}

\* two threads inserting, deleting, backing up and restoring
BackupNext ==
    \E t \in Threads :
        \/ \E k \in Keys, d \in BackupDocs : \E ord \in Orders(d) : Insert(t, k, d, ord)
        \/ InsertIndex(t)
        \/ \E k \in Keys : Delete(t, k)
        \/ DeleteIndex(t)
        \/ Backup(t)
        \/ BackupCopy(t)
        \/ Restore(t)
        \/ RestoreCopy(t)

BackupSpec == Init /\ [][BackupNext]_vars

\* thread t is in the file-level copy of backup or restore
Copying(t) == pc[t] \in {"backup_copy", "restore_copy"}

\* C15 (Backup quiescence): while a thread is in the file-level copy of
\* backup or restore, no step of another thread modifies either store.
C15_CopyExcludesWriters ==
    [][(\E t \in Threads : Copying(t) /\ pc'[t] = pc[t]) =>
           db' = db /\ index' = index]_vars


(***************************************************************************)
(* Neemo::aggregate                                                        *)
(***************************************************************************)

\* Option<Value>: Some of the number p / q
Some(p, q) == [some |-> TRUE, num |-> p, den |-> q]

\* an f64: the number p / q, or a value that is not finite (NaN, infinity)
F64(p, q) == [finite |-> TRUE, num |-> p, den |-> q]

NotFinite == [finite |-> FALSE, num |-> 0, den |-> 1]

\* aggregate with a plausible slip: every value found under the field is
\* counted, numeric or not
CountedAnyValue(d, f) == f \in DOMAIN d

\* lines 146-148: document d has a value under field f, it is a Number, and
\* as_f64 gives it as an f64 (it always does for an integer)
Counted(d, f) == f \in DOMAIN d /\ d[f].t = "num"

\* lines 140-157: sum and count once the loop has visited the keys ks: a
\* record that does not deserialize, or a document that is not counted,
\* leaves both as they are
RECURSIVE Accumulate(_, _, _)
Accumulate(ks, f, acc) ==
    IF ks = <<>> THEN acc
    ELSE LET p == from_slice(db[Head(ks)])
         IN  Accumulate(Tail(ks), f,
                 IF p.ok /\ Counted(p.doc, f)
                 THEN [sum |-> acc.sum + p.doc[f].n, count |-> acc.count + 1]
                 ELSE acc)

\* aggregate with a plausible slip: the average of no value is taken to be 0
div_or_zero(sum, count) == IF count = 0 THEN F64(0, 1) ELSE F64(sum, count)

\* line 161: sum / count as f64; with count 0, sum is 0.0 and 0.0 / 0.0 is NaN
f64_div(sum, count) == IF count = 0 THEN NotFinite ELSE F64(sum, count)

\* serde_json::Number::from_f64 (lines 159, 161): None unless x is finite
from_f64(x) == IF x.finite THEN Some(x.num, x.den) ELSE None

\* lines 158-163: the match on op, sum and count being those of the loop
aggregate(field, o) ==
    LET acc == Accumulate(SortKeys(DOMAIN db), field, [sum |-> 0, count |-> 0])
    IN  CASE o = "sum" -> from_f64(F64(acc.sum, 1))
          [] o = "count" -> Some(acc.count, 1)
          [] o = "avg" -> from_f64(f64_div(acc.sum, acc.count))
          [] OTHER -> None

\* lines 139-164: the db lock is held over the whole loop (its guard is a
\* temporary of the `for` iterator expression) and no other lock is taken
Aggregate(t, field, o) ==
    /\ Callable(t)
    /\ dbLock = NoThread
    /\ agg' = [agg EXCEPT ![t] = aggregate(field, o)]
    /\ Enter(t, "aggregate", <<>>, EmptyDoc, <<>>,
             [field |-> field, lo |-> Num(0), hi |-> Num(0), op |-> o])
    /\ pc' = [pc EXCEPT ![t] = "ret"]
    /\ results' = [results EXCEPT ![t] = <<>>]
    /\ UNCHANGED <<db, index, dbLock, indexLock, items, lastOk, clean, xfer,
                   shown, want>>

\* documents, fields and operations of AggSpec
AggDocs ==
    {Doc1(Age, Num(0)), Doc1(Age, Num(30)), Doc1(Age, Str(Bob)),
     Doc2(Age, Num(30), Name, Str(Bob))}

AggFields == {Age, Name}

AggOps == {"sum", "count", "avg", "max"}

\* one thread inserting, deleting and aggregating
AggNext ==
    \/ \E k \in Keys, d \in AggDocs : \E ord \in Orders(d) : Insert(T1, k, d, ord)
    \/ InsertIndex(T1)
    \/ \E k \in Keys : Delete(T1, k)
    \/ DeleteIndex(T1)
    \/ \E f \in AggFields, o \in AggOps : Aggregate(T1, f, o)

AggSpec == Init /\ [][AggNext]_vars

\* the keys of the live documents that hold a number in field f
NumericKeys(f) == {k \in DOMAIN Live : f \in DOMAIN Live[k] /\ Live[k][f].t = "num"}

\* the sum of the numbers the live documents under the keys S hold in field f
RECURSIVE SumOf(_, _)
SumOf(S, f) ==
    IF S = {} THEN 0
    ELSE LET k == CHOOSE x \in S : TRUE
         IN  Live[k][f].n + SumOf(S \ {k}, f)

\* thread t has returned from aggregate(field, o)
Aggregated(t, o) == pc[t] = "ret" /\ op[t] = "aggregate" /\ arg[t].op = o

\* C16 (avg on an empty match set): when aggregate(field, "avg") has
\* returned, its result is None, neither 0 nor NaN, if no live document holds
\* a number in field, and otherwise Some of the average, so that an average
\* of zero is Some(0) and differs from it.
C16_AvgOfNothingIsUndefined ==
    \A t \in Threads :
        Aggregated(t, "avg") =>
            LET S == NumericKeys(arg[t].field)
            IN  /\ agg[t].some <=> S # {}
                /\ agg[t].some =>
                      agg[t].num * Cardinality(S) = SumOf(S, arg[t].field) * agg[t].den

\* avg has returned over a store that holds a document, none with a number
\* in the field
C16_Witness ==
    \E t \in Threads :
        /\ Aggregated(t, "avg")
        /\ DOMAIN Live # {}
        /\ NumericKeys(arg[t].field) = {}
        /\ agg[t] = None

\* C17 (Aggregate sum and count): when aggregate(field, "count") has
\* returned, its result is the number of live documents that hold a number
\* in field; when aggregate(field, "sum") has returned, its result is the sum
\* of those numbers.
C17_SumAndCount ==
    \A t \in Threads :
        LET S == NumericKeys(arg[t].field)
        IN  /\ Aggregated(t, "count") => agg[t] = Some(Cardinality(S), 1)
            /\ Aggregated(t, "sum") =>
                  agg[t].some /\ agg[t].num = SumOf(S, arg[t].field) * agg[t].den

\* sum has returned 60 over two live documents that each hold 30
C17_Witness ==
    \E t \in Threads :
        /\ Aggregated(t, "sum")
        /\ Cardinality(NumericKeys(arg[t].field)) = 2
        /\ agg[t] = Some(60, 1)


\* C18 (Delete of an absent key is a no-op): a step in which the thread of
\* SeqSpec calls delete(key) with nothing stored under key returns Ok at
\* once and leaves the primary store and the index as they were.
C18_DeleteAbsentIsNoOp ==
    [][(calls' = calls + 1 /\ op'[T1] = "delete" /\ key'[T1] \notin DOMAIN db) =>
           /\ pc'[T1] = "ret"
           /\ ok'[T1]
           /\ db' = db
           /\ index' = index]_vars

\* the second call, delete(u2), has returned Ok on a store that holds a
\* document under u1 alone, with its index entries
C18_Witness ==
    /\ calls = 2
    /\ pc[T1] = "ret" /\ op[T1] = "delete" /\ ok[T1]
    /\ key[T1] = U2
    /\ DOMAIN db = {U1}
    /\ index # <<>>


\* C19 (Equality query soundness): when query(field, value) has returned,
\* with no other call in between, every document of its result has field
\* equal to value, and no document is returned more than once: the result is
\* no longer than the number of live keys that hold a matching document.
C19_QueryReturnsOnlyMatches ==
    \A t \in Threads :
        pc[t] = "ret" /\ op[t] = "query" =>
            /\ \A i \in DOMAIN results[t] :
                  Holds(results[t][i], arg[t].field, arg[t].lo)
            /\ Len(results[t]) <=
                  Cardinality({k \in DOMAIN Live :
                                 Holds(Live[k], arg[t].field, arg[t].lo)})


(***************************************************************************)
(* One thread inserting, running the BATCH closure and querying            *)
(***************************************************************************)

BatchDocs == {Doc1(Name, Str(Bob)), Doc2(Age, Num(30), Name, Str(Alice))}

BatchQueries == {<<Name, Str(Alice)>>, <<Name, Str(Bob)>>}

BatchNext ==
    \/ \E k \in Keys, d \in BatchDocs : \E ord \in Orders(d) : Insert(T1, k, d, ord)
    \/ InsertIndex(T1)
    \/ Batch(T1)
    \/ BatchRun(T1)
    \/ \E q \in BatchQueries : Query(T1, q[1], q[2])
    \/ QueryFetch(T1)

BatchSpec == Init /\ [][BatchNext]_vars

\* C20 (Index lock-step for every write path): with no call in flight, every
\* live document, whether insert or the BATCH closure stored it, has an
\* index entry for each of its (field, value) pairs; and when
\* query(field, value) has returned, its result holds doc1 or doc2 if that
\* document is live and has field equal to value.
C20_EveryWritePathIndexes ==
    /\ Quiescent =>
          \A k \in DOMAIN Live : \A f \in DOMAIN Live[k] :
              index_key(f, Live[k][f]) \in DOMAIN index
    /\ \A t \in Threads :
          pc[t] = "ret" /\ op[t] = "query" =>
              \A k \in {KeyDoc1, KeyDoc2} \cap DOMAIN Live :
                  Holds(Live[k], arg[t].field, arg[t].lo) =>
                      Live[k] \in Elems(results[t])


(***************************************************************************)
(* Neemo::list and Neemo::full_text_search                                 *)
(***************************************************************************)

\* lines 85-88: the documents under the keys ks, in key order, a record that
\* does not deserialize being skipped
RECURSIVE list(_)
list(ks) ==
    IF ks = <<>> THEN <<>> ELSE get(Head(ks)) \o list(Tail(ks))

\* lines 84-89: lock db, collect every document, unlock
List(t) ==
    /\ Callable(t)
    /\ dbLock = NoThread
    /\ results' = [results EXCEPT ![t] = list(SortKeys(DOMAIN db))]
    /\ Enter(t, "list", <<>>, EmptyDoc, <<>>, NoArg)
    /\ pc' = [pc EXCEPT ![t] = "ret"]
    /\ UNCHANGED <<more, db, index, dbLock, indexLock, items, lastOk, clean, xfer>>

\* str::contains (line 126): query occurs in text at some offset
contains(text, query) ==
    \E i \in 0..(Len(text) - Len(query)) :
        SubSeq(text, i + 1, i + Len(query)) = query

\* full_text_search with a plausible slip: the text of every value is
\* searched, a number's digits included
MatchesAnyValue(d, query) ==
    \E f \in DOMAIN d :
        contains(IF d[f].t = "str" THEN d[f].s ELSE value_to_string(d[f]), query)

\* lines 124-131: some value of the document is a String that contains query
Matches(d, query) ==
    \E f \in DOMAIN d : d[f].t = "str" /\ contains(d[f].s, query)

\* lines 119-135: the results once the loop has visited the keys ks: a
\* document is pushed once, at its first matching value (the break of line
\* 128), and a record that does not deserialize is skipped
RECURSIVE full_text_search(_, _)
full_text_search(ks, query) ==
    IF ks = <<>> THEN <<>>
    ELSE LET p == from_slice(db[Head(ks)])
         IN  (IF p.ok /\ Matches(p.doc, query) THEN <<p.doc>> ELSE <<>>)
                 \o full_text_search(Tail(ks), query)

\* lines 118-136: the db lock is held over the whole loop (its guard is a
\* temporary of the `for` iterator expression) and no other lock is taken
FullTextSearch(t, query) ==
    /\ Callable(t)
    /\ dbLock = NoThread
    /\ results' = [results EXCEPT ![t] = full_text_search(SortKeys(DOMAIN db), query)]
    /\ Enter(t, "full_text_search", <<>>, EmptyDoc, <<>>,
             [field |-> <<>>, lo |-> Num(0), hi |-> Num(0), query |-> query])
    /\ pc' = [pc EXCEPT ![t] = "ret"]
    /\ UNCHANGED <<more, db, index, dbLock, indexLock, items, lastOk, clean, xfer>>

(***************************************************************************)
(* One thread writing and calling every read-only method                   *)
(***************************************************************************)

\* the document with the string Bob in two fields
BobBob == Doc2(Name, Str(Bob), N, Str(Bob))

ReadDocs ==
    {Doc1(Age, Num(30)), Doc1(Name, Str(Bob)), BobBob,
     Doc2(Age, Num(30), Name, Str(Alice))}

\* Bob, "o", "bo", the digits of 30, the field name "name", the empty string
SearchQueries == {Bob, <<111>>, <<98, 111>>, Digits(30), Name, <<>>}

ReadQueries == {<<Age, Num(30)>>, <<Name, Str(Bob)>>}

ReadRanges == {<<Age, Num(0), Num(50)>>}

ReadAggOps == {"sum", "avg", "max"}

ReadNext ==
    \/ \E k \in Keys, d \in ReadDocs : \E ord \in Orders(d) : Insert(T1, k, d, ord)
    \/ InsertIndex(T1)
    \/ \E k \in Keys : Delete(T1, k)
    \/ DeleteIndex(T1)
    \/ \E k \in Keys : Get(T1, k)
    \/ \E q \in ReadQueries : Query(T1, q[1], q[2])
    \/ QueryFetch(T1)
    \/ \E r \in ReadRanges : RangeQuery(T1, r[1], r[2], r[3])
    \/ RangeFetch(T1)
    \/ List(T1)
    \/ \E q \in SearchQueries : FullTextSearch(T1, q)
    \/ \E o \in ReadAggOps : Aggregate(T1, Age, o)

ReadSpec == Init /\ [][ReadNext]_vars

\* q is s from some position i + 1 to some position j
Occurs(q, s) ==
    \E i, j \in 0..Len(s) : i <= j /\ SubSeq(s, i + 1, j) = q

\* the keys of the live documents with a string value in which q occurs
TextKeys(q) ==
    {k \in DOMAIN Live :
        \E f \in DOMAIN Live[k] : Live[k][f].t = "str" /\ Occurs(q, Live[k][f].s)}

\* C21 (Text search): when full_text_search(query) has returned, its result
\* holds the live documents with at least one string value that contains
\* query, and nothing else, one per key that holds such a document: a
\* document with several matching values appears once, and an occurrence in
\* a field name or in a number does not count.
C21_SearchReturnsExactlyMatches ==
    \A t \in Threads :
        pc[t] = "ret" /\ op[t] = "full_text_search" =>
            /\ Elems(results[t]) = {Live[k] : k \in TextKeys(arg[t].query)}
            /\ Len(results[t]) = Cardinality(TextKeys(arg[t].query))

\* the search for Bob has returned, once, the document with Bob in two
\* fields, and not the other live document, which holds the number 30
C21_Witness ==
    \E t \in Threads :
        /\ pc[t] = "ret" /\ op[t] = "full_text_search"
        /\ arg[t].query = Bob
        /\ Cardinality(DOMAIN Live) = 2
        /\ \E k \in DOMAIN Live : Live[k] = Doc1(Age, Num(30))
        /\ results[t] = <<BobBob>>


\* the methods that only read
ReadOps == {"get", "query", "range_query", "list", "full_text_search", "aggregate"}

\* C22 (Read-only operations are pure): every step of a call of get, query,
\* range_query, list, full_text_search or aggregate by the thread of
\* ReadSpec leaves the primary store and the index as they were, and the
\* step that returns leaves both locks free.
C22_ReadsArePure ==
    [][op'[T1] \in ReadOps =>
           /\ db' = db
           /\ index' = index
           /\ pc'[T1] = "ret" => dbLock' = NoThread /\ indexLock' = NoThread]_vars

\* a query that fetched a document has returned, both stores hold entries
\* and both locks are free
C22_Witness ==
    /\ pc[T1] = "ret" /\ op[T1] = "query"
    /\ results[T1] # <<>>
    /\ db # <<>> /\ index # <<>>
    /\ dbLock = NoThread /\ indexLock = NoThread

=============================================================================
